---- MODULE Spec2Model ----
(***************************************************************************)
(* A model of src/main.py: the text-similarity pipeline                    *)
(*   read_file -> preprocess -> segment -> calculate -> round -> write_file *)
(* A Python str is a sequence of Unicode code points (integers).           *)
(***************************************************************************)
EXTENDS Integers, Sequences, FiniteSets

VARIABLES
    pc,                 \* position in the operation the specification runs
    \* ---- preprocess on u + '<' + t + '>' + v and on u + v
    u, t, v, tagged, plain,
    \* ---- preprocess applied once and twice
    x, once, twice,
    \* ---- segment: its argument, jieba's tokens, the tokens kept, the result
    seg_text, words, filtered_words, segmented,
    \* ---- calculate(text1, text2) and calculate(text2, text1)
    text1, text2, outcome, swapped,
    \* ---- main(): the world it runs in
    argv,               \* the command line: "ok", "bad" or "help"
    ansi_known,         \* whether this Python knows the codec name 'ansi'
    files,              \* the original and the copy, as found on disk
    result_writable,    \* whether the result path can be opened for writing
    \* ---- main(): FileHandler.read_file's loop
    file_path, enc_i, tried,
    \* ---- main(): its locals
    orig_text, copy_text, orig_processed, copy_processed,
    orig_segmented, copy_segmented, similarity, similarity_rounded,
    \* ---- main(): what it leaves behind
    result_file, writes, error, raised_in, stderr, exit_code

varsTag  == <<u, t, v, tagged, plain>>
varsNorm == <<x, once, twice>>
varsSeg  == <<seg_text, words, filtered_words, segmented>>
varsCalc == <<text1, text2, outcome, swapped>>
varsEnv  == <<argv, ansi_known, files, result_writable>>
varsRead == <<file_path, enc_i, tried>>
varsText == <<orig_text, copy_text, orig_processed, copy_processed,
              orig_segmented, copy_segmented, similarity, similarity_rounded>>
varsOut  == <<result_file, writes, error, raised_in, stderr, exit_code>>
varsMain == <<varsEnv, varsRead, varsText, varsOut>>
vars     == <<pc, varsTag, varsNorm, varsSeg, varsCalc, varsMain>>

(***************************************************************************)
(* Characters                                                              *)
(***************************************************************************)
NL    == 10      \* '\n'
SP    == 32      \* ' '
BANG  == 33      \* '!'
DOT   == 46      \* '.'
SLASH == 47      \* '/'
ZERO  == 48      \* '0'
LT    == 60      \* '<'
GT    == 62      \* '>'
LowA  == 97      \* 'a'
LowB  == 98      \* 'b'
LowC  == 99      \* 'c'
LowD  == 100     \* 'd'
NBSP  == 160     \* U+00A0, a Unicode space
Tian  == 22825   \* U+5929
Hao   == 22909   \* U+597D, a stopword
Kan   == 30475   \* U+770B, a stopword
Qi    == 27668   \* U+6C14
CjkLo == 19968   \* U+4E00
CjkHi == 40869   \* U+9FA5

\* A value no str takes: "not computed yet".
None == <<-1>>

\* The value of a score that has not been computed.
NoScore == [num |-> 0, den |-> 0]

\* The outcome of a call of calculate that has not been made.
NoOutcome == [error |-> "pending", vectorized |-> FALSE, score |-> NoScore]

\* All strings over alphabet A of length at most n.
Strings(A, n) == UNION {[1..k -> A] : k \in 0..n}

\* Python's str.isspace / re's \s on str patterns (Unicode white space).
IsSpace(c) ==
    \/ c \in 9..13
    \/ c \in 28..32
    \/ c \in {133, 160, 5760, 8232, 8233, 8239, 8287, 12288}
    \/ c \in 8192..8202

IsCjk(c) == c >= CjkLo /\ c <= CjkHi

IsAsciiAlnum(c) == c \in 48..57 \/ c \in 65..90 \/ c \in 97..122

\* The class [一-龥a-zA-Z0-9\s] of line 58.
IsKept(c) == IsCjk(c) \/ IsAsciiAlnum(c) \/ IsSpace(c)

(***************************************************************************)
(* TextProcessor.preprocess                                                *)
(***************************************************************************)
\* End of the match of <.*?> that starts at i (text[i] = '<'): the first '>'
\* after i, provided no '\n' stands before it ('.' does not match '\n');
\* 0 when there is no match at i.
RECURSIVE TagEnd(_, _)
TagEnd(text, j) ==
    IF j > Len(text) THEN 0
    ELSE IF text[j] = GT THEN j
    ELSE IF text[j] = NL THEN 0
    ELSE TagEnd(text, j + 1)

\* re.sub(r'<.*?>', '', text), scanning from position i.
RECURSIVE StripTagsFrom(_, _)
StripTagsFrom(text, i) ==
    IF i > Len(text) THEN <<>>
    ELSE IF text[i] = LT /\ TagEnd(text, i + 1) > 0
         THEN StripTagsFrom(text, TagEnd(text, i + 1) + 1)
         ELSE <<text[i]>> \o StripTagsFrom(text, i + 1)

\* The slip of a greedy pattern, <.*>: the match runs to the last '>' of the line.
RECURSIVE GreedyTagEnd(_, _, _)
GreedyTagEnd(text, j, last) ==
    IF j > Len(text) \/ text[j] = NL THEN last
    ELSE GreedyTagEnd(text, j + 1, IF text[j] = GT THEN j ELSE last)

RECURSIVE StripTagsGreedyFrom(_, _)
StripTagsGreedyFrom(text, i) ==
    IF i > Len(text) THEN <<>>
    ELSE IF text[i] = LT /\ GreedyTagEnd(text, i + 1, 0) > 0
         THEN StripTagsGreedyFrom(text, GreedyTagEnd(text, i + 1, 0) + 1)
         ELSE <<text[i]>> \o StripTagsGreedyFrom(text, i + 1)

StripTagsGreedy(text) == StripTagsGreedyFrom(text, 1)

StripTags(text) == StripTagsFrom(text, 1)

\* re.sub(r'[^一-龥a-zA-Z0-9\s]', '', text)
RemoveSpecial(text) == SelectSeq(text, IsKept)

\* re.sub(r'\s+', ' ', text): every maximal run of white space becomes one ' '.
RECURSIVE CollapseFrom(_, _)
CollapseFrom(text, i) ==
    IF i > Len(text) THEN <<>>
    ELSE IF IsSpace(text[i])
         THEN IF i > 1 /\ IsSpace(text[i - 1])
              THEN CollapseFrom(text, i + 1)
              ELSE <<SP>> \o CollapseFrom(text, i + 1)
         ELSE <<text[i]>> \o CollapseFrom(text, i + 1)

CollapseSpaces(text) == CollapseFrom(text, 1)

\* str.strip(): white space removed at both ends.
RECURSIVE LStrip(_)
LStrip(text) ==
    IF text # <<>> /\ IsSpace(Head(text)) THEN LStrip(Tail(text)) ELSE text

RECURSIVE RStrip(_)
RStrip(text) ==
    IF text # <<>> /\ IsSpace(text[Len(text)])
    THEN RStrip(SubSeq(text, 1, Len(text) - 1))
    ELSE text

Strip(text) == RStrip(LStrip(text))

\* The slip of collapsing white space before the special characters are removed.
PreprocessCollapseFirst(text) == Strip(RemoveSpecial(CollapseSpaces(StripTags(text))))

Preprocess(text) == Strip(CollapseSpaces(RemoveSpecial(StripTags(text))))

(***************************************************************************)
(* SpecTag: preprocess on a text with and without an inserted tag          *)
(***************************************************************************)
MaxU == 2
MaxT == 2
MaxV == 2

TagAlphabet == {LT, GT, LowA, NL}

IdleTag  == u = None /\ t = None /\ v = None /\ tagged = None /\ plain = None
IdleNorm == x = None /\ once = None /\ twice = None
IdleSeg  == seg_text = None /\ words = None /\ filtered_words = None /\ segmented = None
IdleMain ==
    /\ argv = "none" /\ ansi_known = FALSE /\ files = <<>> /\ result_writable = FALSE
    /\ file_path = "none" /\ enc_i = 0 /\ tried = <<>>
    /\ orig_text = None /\ copy_text = None
    /\ orig_processed = None /\ copy_processed = None
    /\ orig_segmented = None /\ copy_segmented = None
    /\ similarity = NoScore /\ similarity_rounded = None
    /\ result_file = None /\ writes = 0 /\ error = "none" /\ raised_in = "none"
    /\ stderr = <<>> /\ exit_code = -1
IdleCalc == text1 = None /\ text2 = None /\ outcome = NoOutcome /\ swapped = NoOutcome

InitTag ==
    /\ pc = "tag_start"
    /\ u \in Strings(TagAlphabet, MaxU)
    /\ t \in Strings(TagAlphabet \ {GT}, MaxT)
    /\ v \in Strings(TagAlphabet, MaxV)
    /\ tagged = None
    /\ plain = None
    /\ IdleNorm
    /\ IdleSeg
    /\ IdleCalc
    /\ IdleMain

PreprocessTagged ==
    /\ pc = "tag_start"
    /\ tagged' = Preprocess(u \o <<LT>> \o t \o <<GT>> \o v)
    /\ pc' = "tag_plain"
    /\ UNCHANGED <<u, t, v, plain, varsNorm, varsSeg, varsCalc, varsMain>>

PreprocessPlain ==
    /\ pc = "tag_plain"
    /\ plain' = Preprocess(u \o v)
    /\ pc' = "tag_done"
    /\ UNCHANGED <<u, t, v, tagged, varsNorm, varsSeg, varsCalc, varsMain>>

NextTag == PreprocessTagged \/ PreprocessPlain

SpecTag == InitTag /\ [][NextTag]_vars

\* Every '<' of s is closed inside s: a '>' follows it in s, on the same line.
ClosedIn(s) == \A i \in 1..Len(s) : s[i] = LT => TagEnd(s, i + 1) > 0

HasNoLineBreak(s) == \A i \in 1..Len(s) : s[i] # NL

\* C7 as stated: for all u, v and every tag body t without '>',
\* preprocess(u + '<' + t + '>' + v) equals preprocess(u + v).
C7_TagInsertionAnywhere == pc = "tag_done" => tagged = plain

\* C7 amended: when t holds neither '>' nor a line break and every '<' of u is
\* closed inside u, preprocess(u + '<' + t + '>' + v) equals preprocess(u + v).
C7_TagInsertionClosedPrefix ==
    (pc = "tag_done" /\ HasNoLineBreak(t) /\ ClosedIn(u)) => tagged = plain

\* A tag with a body, after a prefix that holds a closed tag, before a suffix
\* that survives: both normal forms computed, equal and non-empty.
C7_Witness ==
    /\ pc = "tag_done"
    /\ t # <<>> /\ HasNoLineBreak(t)
    /\ ClosedIn(u) /\ \E i \in 1..Len(u) : u[i] = LT
    /\ plain # <<>>
    /\ tagged = plain

(***************************************************************************)
(* SpecNormalize: preprocess applied to its own output                     *)
(***************************************************************************)
MaxLen == 5

NormAlphabet == {LT, GT, LowA, SP, NL, BANG, Tian, NBSP}

InitNormalize ==
    /\ pc = "norm_start"
    /\ x \in Strings(NormAlphabet, MaxLen)
    /\ once = None
    /\ twice = None
    /\ IdleTag
    /\ IdleSeg
    /\ IdleCalc
    /\ IdleMain

PreprocessOnce ==
    /\ pc = "norm_start"
    /\ once' = Preprocess(x)
    /\ pc' = "norm_once"
    /\ UNCHANGED <<x, twice, varsTag, varsSeg, varsCalc, varsMain>>

PreprocessTwice ==
    /\ pc = "norm_once"
    /\ twice' = Preprocess(once)
    /\ pc' = "norm_done"
    /\ UNCHANGED <<x, once, varsTag, varsSeg, varsCalc, varsMain>>

NextNormalize == PreprocessOnce \/ PreprocessTwice

SpecNormalize == InitNormalize /\ [][NextNormalize]_vars

\* NormalizedText: only CJK ideographs, ASCII letters and digits and ' ',
\* no two spaces in a row, no white space at either end.
IsNormalized(s) ==
    /\ \A i \in 1..Len(s) : IsCjk(s[i]) \/ IsAsciiAlnum(s[i]) \/ s[i] = SP
    /\ \A i \in 1..(Len(s) - 1) : ~(s[i] = SP /\ s[i + 1] = SP)
    /\ s # <<>> => (s[1] # SP /\ s[Len(s)] # SP)

\* C8: preprocess(preprocess(x)) = preprocess(x), and preprocess(x) is a
\* NormalizedText, for every input x.
C8_Idempotent ==
    /\ pc \in {"norm_once", "norm_done"} => IsNormalized(once)
    /\ pc = "norm_done" => twice = once

\* An input the first pass changes into a non-empty text holding a space.
C8_Witness ==
    /\ pc = "norm_done"
    /\ once # x /\ twice = once
    /\ \E i \in 1..Len(once) : once[i] = SP
    /\ \E i \in 1..Len(x) : x[i] \in {LT, BANG, NBSP, NL}

(***************************************************************************)
(* TextProcessor._load_stopwords, TextProcessor.segment                    *)
(***************************************************************************)
\* set(stopwords_list): the 58 distinct entries of the built-in list.
Stopwords == {
    <<30340>>, <<20102>>, <<22312>>, <<26159>>, <<25105>>, <<26377>>,
    <<21644>>, <<23601>>, <<19981>>, <<20154>>, <<37117>>, <<19968>>,
    <<19968, 20010>>, <<19978>>, <<20063>>, <<24456>>, <<21040>>, <<35828>>,
    <<35201>>, <<21435>>, <<20320>>, <<20250>>, <<30528>>, <<27809, 26377>>,
    <<30475>>, <<22909>>, <<33258, 24049>>, <<36825>>, <<20010>>, <<20197>>,
    <<20182>>, <<36824>>, <<32780>>, <<21518>>, <<20043>>, <<26469>>,
    <<21450>>, <<20110>>, <<20854>>, <<19982>>, <<25152>>, <<23545>>,
    <<20063>>, <<20294>>, <<24182>>, <<25110>>, <<19988>>, <<30528>>,
    <<20102>>, <<36807>>, <<21602>>, <<21527>>, <<21543>>, <<21834>>,
    <<21568>>, <<21862>>, <<20043>>, <<20046>>, <<32773>>, <<20063>>,
    <<30691>>, <<28937>>, <<21705>>}

\* The words of jieba's dictionary that the model's characters spell:
\* U+597D U+770B ("good-looking") and U+5929 U+6C14 ("weather").
Dict == {<<Hao, Kan>>, <<Tian, Qi>>}

\* End of the maximal run of ASCII letters and digits that starts at i.
RECURSIVE AlnumRunEnd(_, _)
AlnumRunEnd(s, i) ==
    IF i < Len(s) /\ IsAsciiAlnum(s[i + 1]) THEN AlnumRunEnd(s, i + 1) ELSE i

\* jieba.cut(text): the tokens partition the text in order. A run of ASCII
\* letters and digits is one token, a dictionary word is one token, and every
\* other character (an ideograph outside a word, a space) is its own token.
RECURSIVE CutFrom(_, _)
CutFrom(s, i) ==
    IF i > Len(s) THEN <<>>
    ELSE IF IsAsciiAlnum(s[i])
         THEN <<SubSeq(s, i, AlnumRunEnd(s, i))>> \o CutFrom(s, AlnumRunEnd(s, i) + 1)
    ELSE IF i < Len(s) /\ SubSeq(s, i, i + 1) \in Dict
         THEN <<SubSeq(s, i, i + 1)>> \o CutFrom(s, i + 2)
    ELSE <<SubSeq(s, i, i)>> \o CutFrom(s, i + 1)

Cut(s) == CutFrom(s, 1)

\* The slip of 'or' for 'and' in the filter of line 68.
KeepWordEither(word) == word \notin Stopwords \/ Strip(word) # <<>>

\* word not in self.stopwords and word.strip()
KeepWord(word) == word \notin Stopwords /\ Strip(word) # <<>>

FilterWords(ws) == SelectSeq(ws, KeepWord)

\* ' '.join(ws)
RECURSIVE Join(_)
Join(ws) ==
    IF ws = <<>> THEN <<>>
    ELSE IF Len(ws) = 1 THEN ws[1]
    ELSE ws[1] \o <<SP>> \o Join(Tail(ws))

SegmentText(s) == Join(FilterWords(Cut(s)))

(***************************************************************************)
(* SpecSegment: segment on every short text                                *)
(***************************************************************************)
MaxSegLen == 4

SegAlphabet == {Hao, Kan, Tian, Qi, LowA, SP}

InitSegment ==
    /\ pc = "seg_start"
    /\ seg_text \in Strings(SegAlphabet, MaxSegLen)
    /\ words = None
    /\ filtered_words = None
    /\ segmented = None
    /\ IdleTag
    /\ IdleNorm
    /\ IdleCalc
    /\ IdleMain

Segment ==
    /\ pc = "seg_start"
    /\ words' = Cut(seg_text)
    /\ filtered_words' = FilterWords(Cut(seg_text))
    /\ segmented' = Join(FilterWords(Cut(seg_text)))
    /\ pc' = "seg_done"
    /\ UNCHANGED <<seg_text, varsTag, varsNorm, varsCalc, varsMain>>

NextSegment == Segment

SpecSegment == InitSegment /\ [][NextSegment]_vars

\* s[i..] is a concatenation of entries of the stopword set.
RECURSIVE StopConcatFrom(_, _)
StopConcatFrom(s, i) ==
    \/ i > Len(s)
    \/ \E w \in Stopwords :
          /\ i + Len(w) - 1 <= Len(s)
          /\ SubSeq(s, i, i + Len(w) - 1) = w
          /\ StopConcatFrom(s, i + Len(w))

IsBlank(s) == \A i \in 1..Len(s) : IsSpace(s[i])

IsContent(word) == ~IsBlank(word) /\ ~(word \in Stopwords)

\* The output is jieba's token sequence, in order, without the blank tokens
\* and the tokens that are stopwords; no output token is a stopword.
TokenStreamOk ==
    /\ filtered_words = SelectSeq(words, IsContent)
    /\ \A i \in 1..Len(filtered_words) :
          filtered_words[i] \notin Stopwords /\ ~IsBlank(filtered_words[i])
    /\ segmented = Join(filtered_words)

\* C9 as stated: a text that is a concatenation of stopword entries yields an
\* empty token stream, and the output is the token sequence in order without
\* blank tokens and stopwords.
C9_StopwordTextYieldsEmpty ==
    pc = "seg_done" =>
        /\ TokenStreamOk
        /\ StopConcatFrom(seg_text, 1) => filtered_words = <<>>

\* C9 amended: a text whose tokens, as jieba cuts it, are all stopword entries
\* or blank yields an empty token stream, and the output is the token
\* sequence in order without blank tokens and stopwords.
C9_StopwordTokensYieldEmpty ==
    pc = "seg_done" =>
        /\ TokenStreamOk
        /\ (\A i \in 1..Len(words) : words[i] \in Stopwords \/ IsBlank(words[i]))
              => (filtered_words = <<>> /\ segmented = <<>>)

\* A text of two stopword tokens and a blank one, cut and filtered to nothing.
C9_Witness ==
    /\ pc = "seg_done"
    /\ Len(words) = 3
    /\ words[1] \in Stopwords /\ IsBlank(words[2]) /\ words[3] \in Stopwords
    /\ filtered_words = <<>>

(***************************************************************************)
(* SimilarityCalculator.calculate                                          *)
(* A score is the exact square of the cosine, a reduced fraction num/den:  *)
(* 1.0 is 1/1 and 0.0 is 0/1.                                              *)
(***************************************************************************)
RECURSIVE Gcd(_, _)
Gcd(a, b) == IF b = 0 THEN a ELSE Gcd(b, a % b)

Fraction(n, d) == [num |-> n \div Gcd(n, d), den |-> d \div Gcd(n, d)]

One  == [num |-> 1, den |-> 1]
Zero == [num |-> 0, den |-> 1]

\* str.lower() on the characters of the model.
Lower(c) == IF c \in 65..90 THEN c + 32 ELSE c

LowerAll(s) == [i \in 1..Len(s) |-> Lower(s[i])]

\* \w of TfidfVectorizer's token_pattern on the characters of the model.
IsWordChar(c) == IsAsciiAlnum(c) \/ c = 95 \/ IsCjk(c)

RECURSIVE WordRunEnd(_, _)
WordRunEnd(s, i) ==
    IF i < Len(s) /\ IsWordChar(s[i + 1]) THEN WordRunEnd(s, i + 1) ELSE i

\* TfidfVectorizer's analyzer (lowercase=True, token_pattern (?u)\b\w\w+\b):
\* the maximal runs of word characters that are at least two characters long.
RECURSIVE AnalyzeFrom(_, _)
AnalyzeFrom(s, i) ==
    IF i > Len(s) THEN <<>>
    ELSE IF ~IsWordChar(s[i]) THEN AnalyzeFrom(s, i + 1)
    ELSE IF WordRunEnd(s, i) > i
         THEN <<SubSeq(s, i, WordRunEnd(s, i))>> \o AnalyzeFrom(s, WordRunEnd(s, i) + 1)
         ELSE AnalyzeFrom(s, i + 1)

Analyze(doc) == AnalyzeFrom(LowerAll(doc), 1)

TermSet(toks) == {toks[i] : i \in 1..Len(toks)}

\* The vocabulary fit_transform builds over the two documents.
Vocabulary(doc1, doc2) == TermSet(Analyze(doc1)) \cup TermSet(Analyze(doc2))

\* Term frequency: the raw count of term in the document's tokens.
Tf(term, toks) == Cardinality({i \in 1..Len(toks) : toks[i] = term})

RECURSIVE SumOver(_, _)
SumOver(S, f) ==
    IF S = {} THEN 0
    ELSE LET e == CHOOSE e \in S : TRUE IN f[e] + SumOver(S \ {e}, f)

\* idf(term) = ln((1 + 2) / (1 + df)) + 1 is 1 for a term of both documents and
\* ln(1.5) + 1 = 1.4054... for a term of one document; its square is taken as
\* 79/40 = 1.975, so squared weights are counted in fortieths.
IdfSquared40(df) == IF df = 2 THEN 40 ELSE 79

\* Squared norm of a document's tf-idf vector, in fortieths.
Norm40(toks, other) ==
    SumOver(TermSet(toks),
            [term \in TermSet(toks) |->
                Tf(term, toks) * Tf(term, toks)
                  * IdfSquared40(IF term \in TermSet(other) THEN 2 ELSE 1)])

\* Dot product of the two tf-idf vectors, in fortieths: only the terms of both
\* documents contribute, each with idf 1.
Dot40(toks1, toks2) ==
    SumOver(TermSet(toks1) \cap TermSet(toks2),
            [term \in TermSet(toks1) \cap TermSet(toks2) |->
                40 * Tf(term, toks1) * Tf(term, toks2)])

\* cosine_similarity of the two rows: dot / (norm1 * norm2), squared; a zero
\* row has similarity 0 to everything.
Cosine(toks1, toks2) ==
    IF Norm40(toks1, toks2) = 0 \/ Norm40(toks2, toks1) = 0 THEN Zero
    ELSE Fraction(Dot40(toks1, toks2) * Dot40(toks1, toks2),
                  Norm40(toks1, toks2) * Norm40(toks2, toks1))

\* Lines 86-93: fit_transform raises ValueError on an empty vocabulary.
Vectorize(t1, t2) ==
    IF Vocabulary(t1, t2) = {}
    THEN [error |-> "ValueError", vectorized |-> TRUE, score |-> Zero]
    ELSE [error |-> "none", vectorized |-> TRUE,
          score |-> Cosine(Analyze(t1), Analyze(t2))]

Returned(score) == [error |-> "none", vectorized |-> FALSE, score |-> score]

\* The slip of testing 'one is empty' before 'both are empty'.
CalculateZeroFirst(t1, t2) ==
    IF Strip(t1) = <<>> \/ Strip(t2) = <<>> THEN Returned(Zero)
    ELSE IF Strip(t1) = <<>> /\ Strip(t2) = <<>> THEN Returned(One)
    ELSE Vectorize(t1, t2)

\* The slip of testing only the first text in the second guard.
CalculateOneSided(t1, t2) ==
    IF Strip(t1) = <<>> /\ Strip(t2) = <<>> THEN Returned(One)
    ELSE IF Strip(t1) = <<>> THEN Returned(Zero)
    ELSE Vectorize(t1, t2)

Calculate(t1, t2) ==
    IF Strip(t1) = <<>> /\ Strip(t2) = <<>> THEN Returned(One)
    ELSE IF Strip(t1) = <<>> \/ Strip(t2) = <<>> THEN Returned(Zero)
    ELSE Vectorize(t1, t2)

(***************************************************************************)
(* SpecScore: calculate on every pair of short texts, in both orders       *)
(***************************************************************************)
MaxTextLen == 6

ScoreAlphabet == {SP, LowA}

InitScore ==
    /\ pc = "score_start"
    /\ text1 \in Strings(ScoreAlphabet, MaxTextLen)
    /\ text2 \in Strings(ScoreAlphabet, MaxTextLen)
    /\ outcome = NoOutcome
    /\ swapped = NoOutcome
    /\ IdleTag
    /\ IdleNorm
    /\ IdleSeg
    /\ IdleMain

CalculateForward ==
    /\ pc = "score_start"
    /\ outcome' = Calculate(text1, text2)
    /\ pc' = "score_swap"
    /\ UNCHANGED <<text1, text2, swapped, varsTag, varsNorm, varsSeg, varsMain>>

CalculateBackward ==
    /\ pc = "score_swap"
    /\ swapped' = Calculate(text2, text1)
    /\ pc' = "score_done"
    /\ UNCHANGED <<text1, text2, outcome, varsTag, varsNorm, varsSeg, varsMain>>

NextScore == CalculateForward \/ CalculateBackward

SpecScore == InitScore /\ [][NextScore]_vars

\* C1: calculate returns 1.0 when both texts are empty or white space only,
\* else 0.0 when exactly one is, and builds the TF-IDF vectors only when both
\* texts hold a character that is not white space.
C1_DegenerateFirst ==
    pc \in {"score_swap", "score_done"} =>
        /\ (IsBlank(text1) /\ IsBlank(text2)) =>
              (outcome.error = "none" /\ outcome.score = One /\ ~outcome.vectorized)
        /\ (IsBlank(text1) # IsBlank(text2)) =>
              (outcome.error = "none" /\ outcome.score = Zero /\ ~outcome.vectorized)
        /\ outcome.vectorized <=> (~IsBlank(text1) /\ ~IsBlank(text2))

\* Two texts of spaces only, scored 1.0 without vectorization.
C1_Witness ==
    /\ pc = "score_done"
    /\ text1 # <<>> /\ text2 # <<>> /\ text1 # text2
    /\ IsBlank(text1) /\ IsBlank(text2)
    /\ outcome.score = One /\ ~outcome.vectorized

\* C10: calculate(A, B) and calculate(B, A) end the same way with the same
\* score, in the degenerate branches and in the cosine branch.
C10_Symmetric == pc = "score_done" => outcome = swapped

\* Two different texts sharing one term of two: a cosine strictly between 0
\* and 1, the same in both orders.
C10_Witness ==
    /\ pc = "score_done"
    /\ outcome.vectorized /\ outcome.error = "none"
    /\ outcome.score.num > 0 /\ outcome.score.num < outcome.score.den
    /\ outcome = swapped

(***************************************************************************)
(* FileHandler.read_file, FileHandler.write_file, round and str            *)
(***************************************************************************)
\* encodings = ['utf-8', 'gbk', 'gb2312', 'ansi']
Encodings == <<"utf-8", "gbk", "gb2312", "ansi">>

\* round(similarity, 2) in hundredths: the k nearest to 100 * sqrt(num / den).
Hundredths(score) ==
    LET r4 == 4 * ((score.num * 10000) \div score.den)
    IN  CHOOSE k \in 0..100 :
            /\ k = 0 \/ (2 * k - 1) * (2 * k - 1) <= r4
            /\ k = 100 \/ r4 < (2 * k + 1) * (2 * k + 1)

\* str() of a float with at most two decimals: "1.0", "0.0", "0.5", "0.58".
FormatHundredths(k) ==
    IF k = 100 THEN <<ZERO + 1, DOT, ZERO>>
    ELSE IF k % 10 = 0 THEN <<ZERO, DOT, ZERO + (k \div 10)>>
    ELSE <<ZERO, DOT, ZERO + (k \div 10), ZERO + (k % 10)>>

(***************************************************************************)
(* Spec: main()                                                            *)
(***************************************************************************)
\* The documents the two input files may hold:
\* "", "!", "a", "ab", "<b>ab</b> cd" and U+5929 U+6C14 U+597D.
Docs == {<<>>, <<BANG>>, <<LowA>>, <<LowA, LowB>>,
         <<LT, LowB, GT, LowA, LowB, LT, SLASH, LowB, GT, SP, LowC, LowD>>,
         <<Tian, Qi, Hao>>}

\* The sets of encodings that decode a file: what gb2312 decodes, gbk decodes.
DecodableSets ==
    {d \in SUBSET {"utf-8", "gbk", "gb2312", "ansi"} : "gb2312" \in d => "gbk" \in d}

MissingFile == [exists |-> FALSE, decodable |-> {}, text |-> <<>>]

FileStates ==
    {MissingFile} \cup
    {[exists |-> TRUE, decodable |-> d, text |-> doc] :
        d \in DecodableSets \ {{}}, doc \in Docs} \cup
    {[exists |-> TRUE, decodable |-> {}, text |-> <<>>]}

Init ==
    /\ pc = "parse_args"
    /\ argv \in {"ok", "bad", "help"}
    /\ ansi_known \in BOOLEAN
    /\ files \in [{"orig", "copy"} -> FileStates]
    /\ result_writable \in BOOLEAN
    /\ file_path = "none" /\ enc_i = 0 /\ tried = <<>>
    /\ orig_text = None /\ copy_text = None
    /\ orig_processed = None /\ copy_processed = None
    /\ orig_segmented = None /\ copy_segmented = None
    /\ similarity = NoScore /\ similarity_rounded = None
    /\ result_file = None /\ writes = 0 /\ error = "none" /\ raised_in = "none"
    /\ stderr = <<>> /\ exit_code = -1
    /\ IdleTag /\ IdleNorm /\ IdleSeg /\ IdleCalc

varsIdle == <<varsTag, varsNorm, varsSeg, varsCalc>>

\* An exception of class exc leaves the try block at step where.
Raise(exc, where) ==
    /\ error' = exc
    /\ raised_in' = where
    /\ pc' = "except"

\* Lines 99-103: parse_args. A rejected command line and -h leave through
\* SystemExit (codes 2 and 0), which 'except Exception' does not catch.
ParseArgs ==
    /\ pc = "parse_args"
    /\ IF argv = "ok"
       THEN /\ pc' = "read_orig"
            /\ enc_i' = 1
            /\ UNCHANGED <<stderr, exit_code>>
       ELSE /\ pc' = "exited"
            /\ exit_code' = IF argv = "bad" THEN 2 ELSE 0
            /\ stderr' = IF argv = "bad" THEN <<"usage", "argparse error">> ELSE <<>>
            /\ UNCHANGED enc_i
    /\ UNCHANGED <<varsEnv, file_path, tried, varsText, result_file, writes, error, raised_in,
                   varsIdle>>

\* Lines 17-22, one turn of the loop on file f: open with Encodings[enc_i] and
\* read. A missing file raises FileNotFoundError, a codec name Python does not
\* know raises LookupError; neither is caught by the loop. UnicodeDecodeError
\* is caught and the loop goes on.
TryEncoding(f, where, next) ==
    /\ pc = where
    /\ enc_i \in 1..Len(Encodings)
    /\ file_path' = f
    /\ tried' = IF enc_i = 1 THEN <<Encodings[1]>> ELSE Append(tried, Encodings[enc_i])
    /\ IF ~files[f].exists
       THEN /\ Raise("FileNotFoundError", where)
            /\ UNCHANGED <<enc_i, orig_text, copy_text>>
       ELSE IF Encodings[enc_i] = "ansi" /\ ~ansi_known
       THEN /\ Raise("LookupError", where)
            /\ UNCHANGED <<enc_i, orig_text, copy_text>>
       ELSE IF Encodings[enc_i] \in files[f].decodable
       THEN /\ pc' = next
            /\ enc_i' = 1
            /\ orig_text' = IF f = "orig" THEN files[f].text ELSE orig_text
            /\ copy_text' = IF f = "copy" THEN files[f].text ELSE copy_text
            /\ UNCHANGED <<error, raised_in>>
       ELSE /\ enc_i' = enc_i + 1
            /\ UNCHANGED <<pc, orig_text, copy_text, error, raised_in>>
    /\ UNCHANGED <<varsEnv, orig_processed, copy_processed, orig_segmented,
                   copy_segmented, similarity, similarity_rounded,
                   result_file, writes, stderr, exit_code, varsIdle>>

\* Line 25, after the loop: UnicodeDecodeError takes five arguments, so
\* UnicodeDecodeError(message) itself raises TypeError.
RaiseAfterLoop(where) ==
    /\ pc = where
    /\ enc_i = Len(Encodings) + 1
    /\ Raise("TypeError", where)
    /\ UNCHANGED <<varsEnv, varsRead, varsText, result_file, writes, stderr,
                   exit_code, varsIdle>>

\* Line 120
ReadOrig ==
    \/ TryEncoding("orig", "read_orig", "read_copy")
    \/ RaiseAfterLoop("read_orig")

\* Line 124
ReadCopy ==
    \/ TryEncoding("copy", "read_copy", "preprocess_orig")
    \/ RaiseAfterLoop("read_copy")

\* Line 130
PreprocessOrig ==
    /\ pc = "preprocess_orig"
    /\ orig_processed' = Preprocess(orig_text)
    /\ pc' = "preprocess_copy"
    /\ UNCHANGED <<varsEnv, varsRead, orig_text, copy_text, copy_processed,
                   orig_segmented, copy_segmented, similarity, similarity_rounded,
                   varsOut, varsIdle>>

\* Line 133
PreprocessCopy ==
    /\ pc = "preprocess_copy"
    /\ copy_processed' = Preprocess(copy_text)
    /\ pc' = "segment_orig"
    /\ UNCHANGED <<varsEnv, varsRead, orig_text, copy_text, orig_processed,
                   orig_segmented, copy_segmented, similarity, similarity_rounded,
                   varsOut, varsIdle>>

\* Line 136
SegmentOrig ==
    /\ pc = "segment_orig"
    /\ orig_segmented' = SegmentText(orig_processed)
    /\ pc' = "segment_copy"
    /\ UNCHANGED <<varsEnv, varsRead, orig_text, copy_text, orig_processed,
                   copy_processed, copy_segmented, similarity, similarity_rounded,
                   varsOut, varsIdle>>

\* Line 140
SegmentCopy ==
    /\ pc = "segment_copy"
    /\ copy_segmented' = SegmentText(copy_processed)
    /\ pc' = "calculate"
    /\ UNCHANGED <<varsEnv, varsRead, orig_text, copy_text, orig_processed,
                   copy_processed, orig_segmented, similarity, similarity_rounded,
                   varsOut, varsIdle>>

\* Line 145
CalculateSimilarity ==
    /\ pc = "calculate"
    /\ LET got == Calculate(orig_segmented, copy_segmented)
       IN  IF got.error = "none"
           THEN /\ similarity' = got.score
                /\ pc' = "round"
                /\ UNCHANGED <<error, raised_in>>
           ELSE /\ Raise(got.error, "calculate")
                /\ UNCHANGED similarity
    /\ UNCHANGED <<varsEnv, varsRead, orig_text, copy_text, orig_processed,
                   copy_processed, orig_segmented, copy_segmented,
                   similarity_rounded, result_file, writes, stderr, exit_code,
                   varsIdle>>

\* Line 149
RoundSimilarity ==
    /\ pc = "round"
    /\ similarity_rounded' = FormatHundredths(Hundredths(similarity))
    /\ pc' = "write"
    /\ UNCHANGED <<varsEnv, varsRead, orig_text, copy_text, orig_processed,
                   copy_processed, orig_segmented, copy_segmented, similarity,
                   varsOut, varsIdle>>

\* Line 154 and the return of main: the file is opened for writing and
\* holds str(similarity_rounded); open fails when the path is not writable.
WriteResult ==
    /\ pc = "write"
    /\ IF result_writable
       THEN /\ result_file' = similarity_rounded
            /\ writes' = writes + 1
            /\ exit_code' = 0
            /\ pc' = "exited"
            /\ UNCHANGED <<error, raised_in>>
       ELSE /\ Raise("OSError", "write")
            /\ UNCHANGED <<result_file, writes, exit_code>>
    /\ UNCHANGED <<varsEnv, varsRead, varsText, stderr, varsIdle>>

\* The slip of a handler that leaves a placeholder score in the result file.
ExceptWritesPlaceholder ==
    /\ pc = "except"
    /\ stderr' = <<"message", "traceback">>
    /\ exit_code' = 1
    /\ result_file' = FormatHundredths(0)
    /\ writes' = writes + 1
    /\ pc' = "exited"
    /\ UNCHANGED <<varsEnv, varsRead, varsText, error, raised_in, varsIdle>>

\* The slip of a handler that logs and forgets sys.exit(1).
ExceptWithoutExit ==
    /\ pc = "except"
    /\ stderr' = <<"message", "traceback">>
    /\ exit_code' = 0
    /\ pc' = "exited"
    /\ UNCHANGED <<varsEnv, varsRead, varsText, result_file, writes, error,
                   raised_in, varsIdle>>

\* Lines 157-162: the message and the traceback go to stderr, then sys.exit(1).
Except ==
    /\ pc = "except"
    /\ stderr' = <<"message", "traceback">>
    /\ exit_code' = 1
    /\ pc' = "exited"
    /\ UNCHANGED <<varsEnv, varsRead, varsText, result_file, writes, error,
                   raised_in, varsIdle>>

Next ==
    \/ ParseArgs
    \/ ReadOrig
    \/ ReadCopy
    \/ PreprocessOrig
    \/ PreprocessCopy
    \/ SegmentOrig
    \/ SegmentCopy
    \/ CalculateSimilarity
    \/ RoundSimilarity
    \/ WriteResult
    \/ Except

Spec == Init /\ [][Next]_vars

\* Encoding e decodes the file at path f on this platform.
Decodes(e, f) == e \in files[f].decodable /\ (e = "ansi" => ansi_known)

\* calculate has been called: it returned a score or raised.
CalculateCalled == similarity # NoScore \/ raised_in = "calculate"

\* C2: the result file is written at most once and only after both reads,
\* both preprocess calls, both segment calls and calculate have succeeded; a
\* failure of an earlier step leaves the result file untouched.
C2_WriteOnlyAfterScoring ==
    /\ writes \in {0, 1}
    /\ writes = 0 => result_file = None
    /\ writes = 1 =>
          /\ orig_text # None /\ copy_text # None
          /\ orig_processed # None /\ copy_processed # None
          /\ orig_segmented # None /\ copy_segmented # None
          /\ similarity # NoScore /\ similarity_rounded # None
          /\ error = "none"
          /\ result_file = similarity_rounded
    /\ (error # "none" /\ raised_in # "write") => (writes = 0 /\ result_file = None)

\* A run that ended with a score strictly between 0 and 1 in the result file.
C2_Witness ==
    /\ pc = "exited"
    /\ writes = 1
    /\ similarity.num > 0 /\ similarity.num < similarity.den
    /\ result_file = similarity_rounded

\* C3: when both segmented texts pass the empty-text guards of calculate,
\* the joint vocabulary is not empty and vectorization raises no ValueError.
C3_VocabularyNonEmpty ==
    /\ error # "ValueError"
    /\ (CalculateCalled /\ ~IsBlank(orig_segmented) /\ ~IsBlank(copy_segmented))
          => Vocabulary(orig_segmented, copy_segmented) # {}

\* C4: with the same non-empty document as both inputs, calculate returns
\* 1.0 and raises nothing.
C4_Identity ==
    (CalculateCalled /\ orig_text = copy_text /\ orig_text # <<>>)
        => (error = "none" /\ similarity = One)

\* The guard of some action of Next holds: main has a step to take.
StepEnabled ==
    \/ pc \in {"parse_args", "preprocess_orig", "preprocess_copy", "segment_orig",
               "segment_copy", "calculate", "round", "write", "except"}
    \/ pc \in {"read_orig", "read_copy"} /\ enc_i \in 1..(Len(Encodings) + 1)

\* C5 as stated: a run ends with exit code 0 when the score was written and
\* with exit code 1, the message and the traceback on stderr, on any error,
\* argument parsing included; no other exit code.
C5_ExitZeroOrOne ==
    pc = "exited" =>
        /\ exit_code \in {0, 1}
        /\ writes = 1 => exit_code = 0
        /\ (error # "none" \/ argv = "bad") =>
              (exit_code = 1 /\ stderr = <<"message", "traceback">>)

\* C5 amended: every run goes on until it exits; it exits with 0 when the
\* score was written, with 1, the message and the traceback on stderr, on any
\* error raised after argument parsing, and with 2 after argparse's usage
\* message when the command line is rejected (0 for -h); no other exit code.
C5_ExitCodes ==
    /\ pc # "exited" => (exit_code = -1 /\ StepEnabled)
    /\ pc = "exited" =>
          /\ exit_code \in {0, 1, 2}
          /\ writes = 1 => exit_code = 0
          /\ error # "none" <=> exit_code = 1
          /\ error # "none" => stderr = <<"message", "traceback">>
          /\ argv = "bad" <=> exit_code = 2
          /\ argv = "bad" => stderr = <<"usage", "argparse error">>
          /\ exit_code = 0 => (writes = 1 \/ argv = "help")

\* A run that scored and then failed to write: exit code 1, both lines logged.
C5_Witness ==
    /\ pc = "exited"
    /\ raised_in = "write"
    /\ exit_code = 1
    /\ stderr = <<"message", "traceback">>

\* C6: read_file tries the encodings in list order, stops at the first that
\* decodes, and when none decodes fails with UnicodeDecodeError after the
\* whole list.
C6_ReadFileContract ==
    tried # <<>> =>
        /\ tried = SubSeq(Encodings, 1, Len(tried))
        /\ \A i \in 1..(Len(tried) - 1) : ~Decodes(tried[i], file_path)
        /\ (files[file_path].exists
              /\ (\A i \in 1..Len(Encodings) : ~Decodes(Encodings[i], file_path))
              /\ raised_in \in {"read_orig", "read_copy"})
              => (error = "UnicodeDecodeError" /\ tried = Encodings)

====
